---- MODULE Spec2Model ----
(***************************************************************************)
(* A model of the Martian-robots driver of rust/src/main.rs.               *)
(*                                                                         *)
(* Text is modelled as text: a line is a sequence of one-character         *)
(* strings, split on ' ', parsed with the rules of str::parse::<i32>,      *)
(* TryFrom<&str> for Bearing and TryFrom<char> for Instruction, and a      *)
(* result line is built the way format! builds it.                         *)
(*                                                                         *)
(* The output iterator of drive_robots is lazy: every call of next pulls   *)
(* two non-blank lines from the line source and runs the closure on them.  *)
(* The closure's call of get_end_position is unrolled into one step per    *)
(* instruction.  The consumer is main's try_for_each, which stops at the   *)
(* first error item, or a caller that calls next until it returns None.    *)
(* The adaptor of flatten.rs, which main.rs does not use, is modelled on   *)
(* its own.                                                                *)
(***************************************************************************)
EXTENDS Integers, Sequences, FiniteSets, TLC

VARIABLES
    lines,          \* the line source: live (stdin, nothing typed yet) or a given list of items
    cursor,         \* how many items of a given list the source has yielded
    pc,             \* where main is
    flat,           \* the FlattenedIteratorOfResult main iterates
    grid,           \* Grid {x_max, y_max, scents}
    pending,        \* the position line that tuples() holds while it waits for the script line
    start,          \* the closure's `start`: the robot as parsed
    robot,          \* get_end_position's `current`
    instructions,   \* the closure's `instructions`
    ip,             \* index of the next instruction of the for loop
    fallen,         \* history: the pose from which go_forwards took this robot off the grid
    output,         \* the items the flattened iterator has yielded, in order
    consumer,       \* who calls next: main's try_for_each, or a caller that never stops
    adaptor,        \* flatten.rs: the FlattenedIteratorOfResult under test
    returned        \* flatten.rs: what each call of its next has returned, in order

vars ==
    <<lines, cursor, pc, flat, grid, pending, start, robot, instructions, ip, fallen, output,
      consumer, adaptor, returned>>

(***************************************************************************)
(* Bounds of the model.                                                    *)
(***************************************************************************)
\* on stdin the grid lines "<x_max> 0" are typed, 0 <= x_max <= MaxX, and the position
\* lines with 0 <= x <= MaxX + 2 and 0 <= y <= 1: on every grid, one cell off it and
\* two cells off it
MaxX == 1
\* instruction scripts have at most MaxScript characters
MaxScript == 2
\* an input has at most MaxInput non-blank lines: the grid line and two pairs
MaxInput == 5
\* a caller that never stops asks the Err variant of main.rs at most MaxItems times
MaxItems == 3
\* the longest script of identical turns
MaxTurns == 5
\* flatten.rs: the longest iterator handed to the adaptor, and the calls of its next
MaxIter == 3
MaxCalls == 5

(***************************************************************************)
(* Values.                                                                 *)
(***************************************************************************)
None == [tag |-> "None"]
Ok(l) == [tag |-> "Ok", line |-> l]
Err(m) == [tag |-> "Err", msg |-> m]
IsOk(r) == r.tag = "Ok"
IsErr(r) == r.tag = "Err"

Bearings == {"N", "E", "S", "W"}
Rotations == {"L", "R"}
F == [kind |-> "F"]
Turn(r) == [kind |-> "Turn", rotation |-> r]

(***************************************************************************)
(* Text: str::split(' '), str::parse::<i32>, Display for i32.              *)
(***************************************************************************)
Digits == <<"0", "1", "2", "3", "4", "5", "6", "7", "8", "9">>
IsDigit(c) == \E i \in 1..10 : Digits[i] = c
DigitValue(c) == (CHOOSE i \in 1..10 : Digits[i] = c) - 1

RECURSIVE SplitFrom(_, _, _)
\* the fields of s from index i on, cur being the field read so far
SplitFrom(s, i, cur) ==
    IF i > Len(s) THEN <<cur>>
    ELSE IF s[i] = " " THEN <<cur>> \o SplitFrom(s, i + 1, <<>>)
    ELSE SplitFrom(s, i + 1, Append(cur, s[i]))

Split(s) == SplitFrom(s, 1, <<>>)

RECURSIVE DigitsValue(_, _)
DigitsValue(s, acc) ==
    IF s = <<>> THEN acc ELSE DigitsValue(Tail(s), 10 * acc + DigitValue(Head(s)))

\* i32::from_str: an optional sign, then one or more decimal digits.  The numerals
\* of the model have one or two characters, so the value always fits an i32 and no
\* coordinate comes near the ends of its range.
ParseI32(s) ==
    IF s = <<>> THEN Err("cannot parse integer from empty string")
    ELSE LET signed == Head(s) \in {"-", "+"}
             body == IF signed THEN Tail(s) ELSE s
         IN  IF body = <<>> \/ \E i \in 1..Len(body) : ~IsDigit(body[i])
             THEN Err("invalid digit found in string")
             ELSE [tag |-> "Ok",
                   val |-> IF Head(s) = "-" THEN 0 - DigitsValue(body, 0)
                           ELSE DigitsValue(body, 0)]

RECURSIVE FormatNat(_)
FormatNat(n) ==
    IF n < 10 THEN <<Digits[n + 1]>>
    ELSE FormatNat(n \div 10) \o <<Digits[(n % 10) + 1]>>

FormatI32(n) == IF n < 0 THEN <<"-">> \o FormatNat(0 - n) ELSE FormatNat(n)

(***************************************************************************)
(* Parsing of the grid line, the position line and the script line.       *)
(***************************************************************************)
BearingTryFrom(s) ==
    IF Len(s) = 1 /\ s[1] \in Bearings
    THEN [tag |-> "Ok", val |-> s[1]]
    ELSE Err("Bearing must be one of N, E, S, or W")

InstructionTryFrom(c) ==
    CASE c = "F" -> [tag |-> "Ok", val |-> F]
      [] c = "L" -> [tag |-> "Ok", val |-> Turn("L")]
      [] c = "R" -> [tag |-> "Ok", val |-> Turn("R")]
      [] OTHER -> Err("instruction must be F, L, or R")

\* a variant that does not look past the second field
GridTryFrom_lenient(size_line) ==
    LET split == Split(size_line)
        x == ParseI32(split[1])
    IN  IF IsErr(x) THEN x
        ELSE IF Len(split) < 2 THEN Err("missing y coordinate")
        ELSE LET y == ParseI32(split[2])
             IN  IF IsErr(y) THEN y
                 ELSE [tag |-> "Ok",
                       val |-> [x_max |-> x.val, y_max |-> y.val, scents |-> {}]]

GridTryFrom(size_line) ==
    LET split == Split(size_line)
        x == ParseI32(split[1])
    IN  IF IsErr(x) THEN x
        ELSE IF Len(split) < 2 THEN Err("missing y coordinate")
        ELSE LET y == ParseI32(split[2])
             IN  IF IsErr(y) THEN y
                 ELSE IF Len(split) > 2 THEN Err("grid line has too many fields")
                 ELSE [tag |-> "Ok",
                       val |-> [x_max |-> x.val, y_max |-> y.val, scents |-> {}]]

RobotTryFrom(position_line) ==
    LET split == Split(position_line)
        x == ParseI32(split[1])
    IN  IF IsErr(x) THEN x
        ELSE IF Len(split) < 2 THEN Err("missing y coordinate")
        ELSE LET y == ParseI32(split[2])
             IN  IF IsErr(y) THEN y
                 ELSE IF Len(split) < 3 THEN Err("missing bearing")
                 ELSE LET bearing == BearingTryFrom(split[3])
                      IN  IF IsErr(bearing) THEN bearing
                          ELSE IF Len(split) > 3 THEN Err("grid line has too many fields")
                          ELSE [tag |-> "Ok",
                                val |-> [x |-> x.val, y |-> y.val, bearing |-> bearing.val]]

IsInstruction(c) == IsOk(InstructionTryFrom(c))

\* a variant that leaves out the characters that are no instruction
ParseInstructions_skipping(instruction_line) ==
    LET kept == SelectSeq(instruction_line, IsInstruction)
    IN  [tag |-> "Ok", val |-> [i \in 1..Len(kept) |-> InstructionTryFrom(kept[i]).val]]

\* .chars().map(|c| c.try_into()).collect::<Result<Vec<_>>>(): the first error, or all of them
ParseInstructions(instruction_line) ==
    LET bad == {i \in 1..Len(instruction_line) : IsErr(InstructionTryFrom(instruction_line[i]))}
    IN  IF bad # {}
        THEN InstructionTryFrom(instruction_line[CHOOSE i \in bad : \A j \in bad : i <= j])
        ELSE [tag |-> "Ok",
              val |-> [i \in 1..Len(instruction_line) |-> InstructionTryFrom(instruction_line[i]).val]]

\* a variant that keeps blank lines
is_interesting_always(l) == TRUE

is_interesting(l) == IF IsOk(l) THEN l.line # <<>> ELSE TRUE

(***************************************************************************)
(* Robot and Grid.                                                         *)
(***************************************************************************)
move_unchecked(self, steps) ==
    CASE self.bearing = "N" -> [self EXCEPT !.y = self.y + steps]
      [] self.bearing = "E" -> [self EXCEPT !.x = self.x + steps]
      [] self.bearing = "S" -> [self EXCEPT !.y = self.y - steps]
      [] self.bearing = "W" -> [self EXCEPT !.x = self.x - steps]

\* a variant with one arm of the match wrong
rotate_slip(self, rotation) ==
    CASE self = "N" /\ rotation = "L" -> "W"
      [] self = "E" /\ rotation = "L" -> "N"
      [] self = "S" /\ rotation = "L" -> "E"
      [] self = "W" /\ rotation = "L" -> "N"
      [] self = "W" /\ rotation = "R" -> "N"
      [] self = "N" /\ rotation = "R" -> "E"
      [] self = "E" /\ rotation = "R" -> "S"
      [] self = "S" /\ rotation = "R" -> "W"

rotate(self, rotation) ==
    CASE self = "N" /\ rotation = "L" -> "W"
      [] self = "E" /\ rotation = "L" -> "N"
      [] self = "S" /\ rotation = "L" -> "E"
      [] self = "W" /\ rotation = "L" -> "S"
      [] self = "W" /\ rotation = "R" -> "N"
      [] self = "N" /\ rotation = "R" -> "E"
      [] self = "E" /\ rotation = "R" -> "S"
      [] self = "S" /\ rotation = "R" -> "W"

is_out_of_bounds(g, r) == 0 > r.x \/ r.x > g.x_max \/ 0 > r.y \/ r.y > g.y_max

\* a variant that looks the cell up with its coordinates swapped
has_scent_swapped(g, r) == <<r.y, r.x>> \in g.scents

has_scent(g, r) == <<r.x, r.y>> \in g.scents

apply_scent(g, r) == [g EXCEPT !.scents = g.scents \cup {<<r.x, r.y>>}]

\* a variant that never consults the scents
go_forwards_unscented(g, r) == move_unchecked(r, 1)

\* a variant with `||` for `&&`
go_forwards_either(g, r) ==
    LET new_position == move_unchecked(r, 1)
    IN  IF is_out_of_bounds(g, new_position) \/ <<r.x, r.y>> \in g.scents
        THEN r ELSE new_position

go_forwards(g, r) ==
    LET new_position == move_unchecked(r, 1)
    IN  IF is_out_of_bounds(g, new_position) /\ has_scent(g, r) THEN r ELSE new_position

\* a variant without the early return for a robot that is off the grid
get_next_position_unguarded(g, r, instruction) ==
    IF instruction.kind = "Turn"
    THEN [r EXCEPT !.bearing = rotate(r.bearing, instruction.rotation)]
    ELSE go_forwards(g, r)

get_next_position(g, r, instruction) ==
    IF is_out_of_bounds(g, r) THEN r
    ELSE IF instruction.kind = "Turn"
         THEN [r EXCEPT !.bearing = rotate(r.bearing, instruction.rotation)]
         ELSE go_forwards(g, r)

RECURSIVE get_end_position_from(_, _, _, _)
\* the for loop of get_end_position from its i-th iteration on
get_end_position_from(g, current, instrs, i) ==
    IF i > Len(instrs) THEN current
    ELSE get_end_position_from(g, get_next_position(g, current, instrs[i]), instrs, i + 1)

get_end_position(g, r, instrs) == get_end_position_from(g, r, instrs, 1)

\* format!("{} {} {}", x, y, bearing) and format!("{} {} {} LOST", x, y, bearing)
FormatPose(r) == FormatI32(r.x) \o <<" ">> \o FormatI32(r.y) \o <<" ">> \o <<r.bearing>>
FormatLost(r) == FormatPose(r) \o <<" ", "L", "O", "S", "T">>

\* a variant that reports `end` as it is, without the step back
Report_no_backup(g, end) ==
    IF is_out_of_bounds(g, end)
    THEN [grid |-> apply_scent(g, end), item |-> Ok(FormatLost(end))]
    ELSE [grid |-> g, item |-> Ok(FormatPose(end))]

\* a variant that marks the cell of `end`, not of the backed-up robot
Report_marks_end(g, end) ==
    IF is_out_of_bounds(g, end)
    THEN [grid |-> apply_scent(g, end), item |-> Ok(FormatLost(move_unchecked(end, -1)))]
    ELSE [grid |-> g, item |-> Ok(FormatPose(end))]

\* a variant that leaves a scent wherever a robot ends
Report_marks_all(g, end) ==
    IF is_out_of_bounds(g, end)
    THEN LET last == move_unchecked(end, -1)
         IN  [grid |-> apply_scent(g, last), item |-> Ok(FormatLost(last))]
    ELSE [grid |-> apply_scent(g, end), item |-> Ok(FormatPose(end))]

\* the tail of the closure: the item it returns for `end`, and the grid it leaves
Report(g, end) ==
    IF is_out_of_bounds(g, end)
    THEN LET last == move_unchecked(end, -1)
         IN  [grid |-> apply_scent(g, last), item |-> Ok(FormatLost(last))]
    ELSE [grid |-> g, item |-> Ok(FormatPose(end))]

\* the closure of drive_robots on one (position line, script line) pair, as a function:
\* the item it returns and the grid it leaves
closure(g, position_line, instruction_line) ==
    LET parsedRobot ==
            IF IsErr(position_line) THEN position_line ELSE RobotTryFrom(position_line.line)
        parsedInstr ==
            IF IsErr(instruction_line) THEN instruction_line
            ELSE ParseInstructions(instruction_line.line)
    IN  IF IsErr(parsedRobot) THEN [grid |-> g, item |-> parsedRobot]
        ELSE IF IsErr(parsedInstr) THEN [grid |-> g, item |-> parsedInstr]
        ELSE Report(g, get_end_position(g, parsedRobot.val, parsedInstr.val))

RECURSIVE grid_after(_, _)
\* the grid the closure holds after the first k pairs of the non-blank lines p
grid_after(p, k) ==
    IF k = 0 THEN GridTryFrom(p[1].line).val
    ELSE closure(grid_after(p, k - 1), p[2 * k], p[2 * k + 1]).grid

\* the k-th item of the output iterator for the non-blank lines p
nth_item(p, k) == closure(grid_after(p, k - 1), p[2 * k], p[2 * k + 1]).item

\* a variant of the consumer that goes on after an error item
AfterItem_goes_on(who, item) == "tuple0"

\* what the consumer does with an item: try_for_each returns on the first error, and
\* calls next again otherwise; a caller that never stops always calls next again
AfterItem(who, item) == IF who = "main" /\ IsErr(item) THEN "failed" ELSE "tuple0"

\* a variant that hands the newest item over first
Yield_newest_first(out, item) == <<item>> \o out

\* the items reach the consumer in the order the iterator yields them
Yield(out, item) == Append(out, item)

(***************************************************************************)
(* The line source.  On stdin any line may come next, or the end of the    *)
(* stream; a given list yields its items in order.                         *)
(***************************************************************************)
Space == <<" ">>
GridLine(x, y) == FormatI32(x) \o Space \o FormatI32(y)

GridLines == {GridLine(x, 0) : x \in 0..MaxX}
PositionLines ==
    {FormatPose([x |-> x, y |-> y, bearing |-> b]) :
        x \in 0..(MaxX + 2), y \in 0..1, b \in Bearings}
\* a start position west of the grid
NegativePositionLines == {<<"-", "1", " ", "0", " ", "E">>}
ScriptLines == UNION {[1..n -> {"F", "L", "R"}] : n \in 1..MaxScript}
\* lines that break the grammar: a missing field, a field too many, an unknown
\* bearing, a script whose second character is no instruction
OddGridLines == {<<"1">>, <<"1", " ", "0", " ", "0">>, <<"N">>}
OddPositionLines == {<<"0", " ", "0">>, <<"0", " ", "0", " ", "Q">>}
OddScriptLines == {<<"F", "X">>}

\* the lines a user types at each place of the input, well-formed or not
Typed(place) ==
    CASE place = "start" -> GridLines \cup OddGridLines
      [] place = "tuple0" -> PositionLines \cup NegativePositionLines \cup OddPositionLines
      [] place = "tuple1" -> ScriptLines \cup OddScriptLines
      [] OTHER -> {}

Stdin == [live |-> TRUE, rest |-> <<>>]
Given(items) == [live |-> FALSE, rest |-> items]

\* the non-blank lines read from the source so far, at a place where it is read
Taken ==
    IF pc = "start" THEN 0
    ELSE 1 + 2 * Len(output) + (IF pc = "tuple1" THEN 1 ELSE 0)

\* what the source's next can return here: the item, and the cursor after it
Yields ==
    IF lines.live
    THEN {[item |-> it, cursor |-> cursor] :
            it \in (IF Taken < MaxInput
                    THEN {Ok(l) : l \in Typed(pc)} \cup {Err("stream error")}
                    ELSE {}) \cup {Ok(<<>>), None}}
    ELSE IF cursor >= Len(lines.rest) THEN {[item |-> None, cursor |-> cursor]}
    ELSE {[item |-> lines.rest[cursor + 1], cursor |-> cursor + 1]}

\* the source is read at these places only
Reading == pc \in {"start", "tuple0", "tuple1"}

(***************************************************************************)
(* Initial state: main has not called drive_robots yet.                    *)
(***************************************************************************)
InitRest ==
    /\ cursor = 0
    /\ pc = "start"
    /\ flat = None
    /\ grid = None
    /\ pending = None
    /\ start = None
    /\ robot = None
    /\ instructions = <<>>
    /\ ip = 0
    /\ fallen = None
    /\ output = <<>>

\* the adaptor of flatten.rs is not part of the program
NoAdaptor == adaptor = None /\ returned = <<>>

Init == lines = Stdin /\ consumer = "main" /\ InitRest /\ NoAdaptor

(***************************************************************************)
(* The test example_input_produces_example_output: its seven lines, with   *)
(* blank lines between them or not (the test's own input has one before    *)
(* the first line and one after the last).                                 *)
(***************************************************************************)
ExampleLines ==
    <<<<"5", " ", "3">>,
      <<"1", " ", "1", " ", "E">>,
      <<"R", "F", "R", "F", "R", "F", "R", "F">>,
      <<"3", " ", "2", " ", "N">>,
      <<"F", "R", "R", "F", "L", "L", "F", "F", "R", "R", "F", "L", "L">>,
      <<"0", " ", "3", " ", "W">>,
      <<"L", "L", "F", "F", "F", "L", "F", "L", "F", "L">>>>

ExampleOutput ==
    <<Ok(<<"1", " ", "1", " ", "E">>),
      Ok(<<"3", " ", "3", " ", "N", " ", "L", "O", "S", "T">>),
      Ok(<<"2", " ", "3", " ", "S">>)>>

RECURSIVE Padded(_, _)
\* the example's lines from the i-th gap on, with a blank line in the gaps of mask
Padded(mask, i) ==
    (IF mask[i] THEN <<Ok(<<>>)>> ELSE <<>>)
        \o (IF i < Len(ExampleLines)
            THEN <<Ok(ExampleLines[i + 1])>> \o Padded(mask, i + 1)
            ELSE <<>>)

ExampleInputs == {Padded(mask, 0) : mask \in [0..Len(ExampleLines) -> BOOLEAN]}

InitExample ==
    lines \in {Given(items) : items \in ExampleInputs} /\ consumer = "main" /\ InitRest /\ NoAdaptor

(***************************************************************************)
(* Whole inputs of at most MaxInput lines, blank ones included, over a few *)
(* lines: a grid line, two position lines, two scripts, a script whose    *)
(* second character is no instruction, and the blank line, in any order.   *)
(***************************************************************************)
InputLines ==
    {<<"1", " ", "0">>,
     <<"0", " ", "0", " ", "W">>,
     <<"1", " ", "0", " ", "E">>,
     <<"F">>,
     <<"R", "F">>,
     <<"F", "X">>,
     <<>>}

Inputs == UNION {[1..n -> {Ok(l) : l \in InputLines}] : n \in 0..MaxInput}

InitInputs ==
    lines \in {Given(items) : items \in Inputs} /\ consumer = "main" /\ InitRest /\ NoAdaptor

(***************************************************************************)
(* Inputs of one robot that only turns: a grid line, a position line on    *)
(* the grid, and a script of up to MaxTurns turns, all to the same side.   *)
(***************************************************************************)
TurnScripts == {[i \in 1..n |-> r] : n \in 1..MaxTurns, r \in Rotations}
TurnInputs ==
    {<<Ok(GridLine(MaxX, 0)), Ok(FormatPose([x |-> x, y |-> 0, bearing |-> b])), Ok(script)>> :
        x \in 0..MaxX, b \in Bearings, script \in TurnScripts}

InitTurns ==
    lines \in {Given(items) : items \in TurnInputs} /\ consumer = "main" /\ InitRest /\ NoAdaptor

\* the same inputs, iterated by a caller that never stops
InitDrain ==
    lines \in {Given(items) : items \in Inputs} /\ consumer = "drain" /\ InitRest /\ NoAdaptor

(***************************************************************************)
(* Actions.                                                                *)
(***************************************************************************)
\* lines.filter(is_interesting): a blank line is dropped where it is read
SkipBlank(y) ==
    /\ Reading
    /\ y.item # None
    /\ ~is_interesting(y.item)
    /\ cursor' = y.cursor
    /\ UNCHANGED <<lines, pc, flat, grid, pending, start, robot, instructions, ip, fallen, output>>
    /\ UNCHANGED <<consumer, adaptor, returned>>

\* drive_robots up to its return, and main's .flatten() of what it returns
DriveRobots(y) ==
    /\ pc = "start"
    /\ y.item = None \/ is_interesting(y.item)
    /\ cursor' = y.cursor
    /\ LET first == IF y.item = None THEN Err("input must not be empty") ELSE y.item
           parsed == IF IsErr(first) THEN first ELSE GridTryFrom(first.line)
       IN  IF IsErr(parsed)
           THEN flat' = parsed /\ grid' = grid
           ELSE flat' = [tag |-> "Ok"] /\ grid' = parsed.val
    /\ pc' = "tuple0"
    /\ UNCHANGED <<lines, pending, start, robot, instructions, ip, fallen, output>>
    /\ UNCHANGED <<consumer, adaptor, returned>>

\* FlattenedIteratorOfResult::next on the Err variant, and what the consumer does with the item
FlattenedErrNext ==
    /\ pc = "tuple0"
    /\ IsErr(flat)
    /\ Len(output) < MaxItems
    /\ output' = Yield(output, flat)
    /\ flat' = Err("Stop Iterating! It's already dead!")
    /\ pc' = AfterItem(consumer, flat)
    /\ UNCHANGED <<lines, cursor, grid, pending, start, robot, instructions, ip, fallen>>
    /\ UNCHANGED <<consumer, adaptor, returned>>

\* next on the Ok variant: tuples() asks the filtered source for the position line
ReadPosition(y) ==
    /\ pc = "tuple0"
    /\ IsOk(flat)
    /\ y.item = None \/ is_interesting(y.item)
    /\ cursor' = y.cursor
    /\ pending' = y.item
    /\ pc' = IF y.item = None THEN "done" ELSE "tuple1"
    /\ start' = None
    /\ robot' = None
    /\ instructions' = <<>>
    /\ ip' = 0
    /\ fallen' = None
    /\ UNCHANGED <<lines, flat, grid, output>>
    /\ UNCHANGED <<consumer, adaptor, returned>>

\* tuples() asks for the script line; with both lines the closure parses them
ReadScript(y) ==
    /\ pc = "tuple1"
    /\ y.item = None \/ is_interesting(y.item)
    /\ cursor' = y.cursor
    /\ IF y.item = None
       THEN /\ pc' = "done"
            /\ UNCHANGED <<pending, start, robot, instructions, ip, output>>
       ELSE LET parsedRobot == IF IsErr(pending) THEN pending ELSE RobotTryFrom(pending.line)
                parsedInstr == IF IsErr(y.item) THEN y.item ELSE ParseInstructions(y.item.line)
                failure == IF IsErr(parsedRobot) THEN parsedRobot ELSE parsedInstr
            IN  /\ pending' = None
                /\ IF IsErr(failure)
                   THEN /\ output' = Yield(output, failure)
                        /\ pc' = AfterItem(consumer, failure)
                        /\ UNCHANGED <<start, robot, instructions, ip>>
                   ELSE /\ start' = parsedRobot.val
                        /\ robot' = parsedRobot.val
                        /\ instructions' = parsedInstr.val
                        /\ ip' = 1
                        /\ pc' = "running"
                        /\ output' = output
    /\ UNCHANGED <<lines, flat, grid, fallen>>
    /\ UNCHANGED <<consumer, adaptor, returned>>

\* one iteration of get_end_position's for loop
Step ==
    /\ pc = "running"
    /\ ip <= Len(instructions)
    /\ robot' = get_next_position(grid, robot, instructions[ip])
    /\ ip' = ip + 1
    /\ fallen' = IF ~is_out_of_bounds(grid, robot) /\ is_out_of_bounds(grid, robot')
                 THEN robot ELSE fallen
    /\ UNCHANGED <<lines, cursor, pc, flat, grid, pending, start, instructions, output>>
    /\ UNCHANGED <<consumer, adaptor, returned>>

\* the loop is over: the closure reports `end`, main prints the line and calls next again
Finish ==
    /\ pc = "running"
    /\ ip > Len(instructions)
    /\ LET r == Report(grid, robot)
       IN  grid' = r.grid /\ output' = Yield(output, r.item) /\ pc' = AfterItem(consumer, r.item)
    /\ UNCHANGED <<lines, cursor, flat, pending, start, robot, instructions, ip, fallen>>
    /\ UNCHANGED <<consumer, adaptor, returned>>

Next ==
    \/ \E y \in Yields : SkipBlank(y)
    \/ \E y \in Yields : DriveRobots(y)
    \/ FlattenedErrNext
    \/ \E y \in Yields : ReadPosition(y)
    \/ \E y \in Yields : ReadScript(y)
    \/ Step
    \/ Finish

Spec == Init /\ [][Next]_vars

\* the same program on whole inputs
SpecInputs == InitInputs /\ [][Next]_vars

\* the steps of a run without blank lines and with a grid line that parses
NextTurns ==
    \/ \E y \in Yields : DriveRobots(y)
    \/ \E y \in Yields : ReadPosition(y)
    \/ \E y \in Yields : ReadScript(y)
    \/ Step
    \/ Finish

SpecTurns == InitTurns /\ [][NextTurns]_vars

(***************************************************************************)
(* flatten.rs.  A Result<T> is Err(e) or Ok of an iterator, here a list of *)
(* items and the number of them already taken.  flatten_to_iterator wraps  *)
(* it; next hands the iterator's items through, and gives the error once.  *)
(***************************************************************************)
Some(v) == [tag |-> "Some", val |-> v]
ResultOk(items) == [tag |-> "Ok", val |-> [items |-> items, pos |-> 0]]

\* iter.next() of an iterator over a list
IterNext(iter) ==
    IF iter.pos < Len(iter.items)
    THEN [ret |-> Some(iter.items[iter.pos + 1]), iter |-> [iter EXCEPT !.pos = @ + 1]]
    ELSE [ret |-> None, iter |-> iter]

flatten_to_iterator(self) ==
    IF IsOk(self) THEN [variant |-> "Ok", iter |-> self.val]
    ELSE [variant |-> "Err", err |-> Some(self)]

\* a variant that keeps an error in place, as the adaptor of main.rs does
flatten_next_replacing(self) ==
    IF self.variant = "Ok"
    THEN LET n == IterNext(self.iter) IN [ret |-> n.ret, self |-> [self EXCEPT !.iter = n.iter]]
    ELSE [ret |-> Some(self.err.val),
          self |-> [self EXCEPT !.err = Some(Err("Stop Iterating! It's already dead!"))]]

\* FlattenedIteratorOfResult::next: err.take()? returns None once the error is taken
flatten_next(self) ==
    IF self.variant = "Ok"
    THEN LET n == IterNext(self.iter) IN [ret |-> n.ret, self |-> [self EXCEPT !.iter = n.iter]]
    ELSE IF self.err = None THEN [ret |-> None, self |-> self]
    ELSE [ret |-> Some(self.err.val), self |-> [self EXCEPT !.err = None]]

\* the Result<String> items an iterator under test holds, and the Results under test
AdaptorItems == {Ok(<<"1">>), Ok(<<"2">>), Err("instruction must be F, L, or R")}
AdaptorResults ==
    {ResultOk(items) : items \in UNION {[1..n -> AdaptorItems] : n \in 0..MaxIter}}
        \cup {Err("input must not be empty"), Err("missing y coordinate")}

InitAdaptor ==
    /\ lines = Given(<<>>)
    /\ consumer = "drain"
    /\ InitRest
    /\ adaptor \in {[given |-> r, self |-> None] : r \in AdaptorResults}
    /\ returned = <<>>

FlattenToIterator ==
    /\ adaptor # None
    /\ adaptor.self = None
    /\ adaptor' = [adaptor EXCEPT !.self = flatten_to_iterator(adaptor.given)]
    /\ UNCHANGED <<lines, cursor, pc, flat, grid, pending, start, robot, instructions, ip,
                   fallen, output, consumer, returned>>

AdaptorNext ==
    /\ adaptor # None
    /\ adaptor.self # None
    /\ Len(returned) < MaxCalls
    /\ LET n == flatten_next(adaptor.self)
       IN  /\ returned' = Append(returned, n.ret)
           /\ adaptor' = [adaptor EXCEPT !.self = n.self]
    /\ UNCHANGED <<lines, cursor, pc, flat, grid, pending, start, robot, instructions, ip,
                   fallen, output, consumer>>

NextAdaptor == FlattenToIterator \/ AdaptorNext

SpecAdaptor == InitAdaptor /\ [][NextAdaptor]_vars

\* the iterator of drive_robots(lines).flatten() under a caller that never stops
SpecDrain == InitDrain /\ [][Next]_vars

\* the example has a grid line, so the Err variant is never iterated
NextExample ==
    \/ \E y \in Yields : SkipBlank(y)
    \/ \E y \in Yields : DriveRobots(y)
    \/ \E y \in Yields : ReadPosition(y)
    \/ \E y \in Yields : ReadScript(y)
    \/ Step
    \/ Finish

SpecExample == InitExample /\ [][NextExample]_vars

(***************************************************************************)
(* Vocabulary of the properties.                                           *)
(***************************************************************************)
Scents == IF grid = None THEN {} ELSE grid.scents
Cell(r) == <<r.x, r.y>>
InGrid(r) == ~is_out_of_bounds(grid, r)
LastItem == output[Len(output)]
\* the closure has just reported a robot: nothing was read since
Reported == pc = "tuple0" /\ start # None
\* the for loop is about to execute this instruction on a robot that is on the grid
Executes(instruction) ==
    /\ pc = "running"
    /\ ip <= Len(instructions)
    /\ instructions[ip] = instruction
    /\ InGrid(robot)
\* an earlier item of this run is the LOST line of a robot at cell c
ReportedLostAt(c) ==
    \E i \in 1..Len(output), b \in Bearings :
        output[i] = Ok(FormatLost([x |-> c[1], y |-> c[2], bearing |-> b]))
IsLostLine(item) ==
    /\ IsOk(item)
    /\ Len(item.line) > 5
    /\ SubSeq(item.line, Len(item.line) - 4, Len(item.line)) = <<" ", "L", "O", "S", "T">>
HasForward(instrs) == \E i \in 1..Len(instrs) : instrs[i] = F

(***************************************************************************)
(* C1: on the example input the driver yields exactly "1 1 E",             *)
(* "3 3 N LOST" and "2 3 S", in this order, and nothing else; the third    *)
(* robot's Forward at (3,3) facing N leaves it there, on the scent of the  *)
(* second.                                                                 *)
(***************************************************************************)
C1_ExampleOutput ==
    /\ pc # "failed"
    /\ Len(output) <= Len(ExampleOutput)
    /\ \A i \in 1..Len(output) : output[i] = ExampleOutput[i]
    /\ pc = "done" => output = ExampleOutput
    /\ (pc = "running" /\ Len(output) = 2 /\ ip \in {7, 8})
         => /\ robot = [x |-> 3, y |-> 3, bearing |-> "N"]
            /\ <<3, 3>> \in Scents

\* the run of the test's own input is over
C1_Witness ==
    /\ pc = "done"
    /\ output = ExampleOutput
    /\ Len(lines.rest) = Len(ExampleLines) + 2
    /\ lines.rest[1] = Ok(<<>>)
    /\ lines.rest[Len(lines.rest)] = Ok(<<>>)
    /\ cursor = Len(lines.rest)

(***************************************************************************)
(* C2: once a robot was reported LOST at cell c, a later robot that        *)
(* executes Forward on c towards a cell off the grid is not lost: the      *)
(* instruction leaves its position and bearing as they were, it stays on   *)
(* the grid, and the loop goes on with the next instruction.               *)
(***************************************************************************)
C2_ScentBlocks ==
    [][(/\ Executes(F)
        /\ ReportedLostAt(Cell(robot))
        /\ is_out_of_bounds(grid, move_unchecked(robot, 1)))
       => (/\ robot' = robot
           /\ ~is_out_of_bounds(grid', robot')
           /\ fallen' = None
           /\ pc' = "running"
           /\ ip' = ip + 1
           /\ instructions' = instructions)]_vars

\* a robot whose first instruction was such a Forward, with an instruction still to run
C2_Witness ==
    /\ pc = "running"
    /\ ip = 2
    /\ Len(instructions) = 2
    /\ instructions[1] = F
    /\ robot = start
    /\ InGrid(start)
    /\ is_out_of_bounds(grid, move_unchecked(start, 1))
    /\ ReportedLostAt(Cell(start))

(***************************************************************************)
(* C3: a robot on the grid, on a cell without scent, that executes Forward *)
(* towards a cell off the grid is lost: it leaves the grid at that step,   *)
(* its item is "x y bearing LOST" for the pose it had at that Forward, and *)
(* the cell is in the scent set when the closure returns, before any       *)
(* further line is read.                                                   *)
(***************************************************************************)
C3_UnscentedEdgeLoses ==
    [][/\ (/\ Executes(F)
           /\ ~has_scent(grid, robot)
           /\ is_out_of_bounds(grid, move_unchecked(robot, 1)))
          => (/\ is_out_of_bounds(grid', robot')
              /\ fallen' = robot
              /\ pc' = "running")
       /\ (pc = "running" /\ fallen # None /\ pc' # "running")
          => (/\ pc' = "tuple0"
              /\ output' = Append(output, Ok(FormatLost(fallen)))
              /\ Cell(fallen) \in grid'.scents
              /\ cursor' = cursor)]_vars

\* a lost robot has just been reported and its cell carries the scent
C3_Witness ==
    /\ Reported
    /\ fallen # None
    /\ InGrid(fallen)
    /\ LastItem = Ok(FormatLost(fallen))
    /\ Cell(fallen) \in Scents

(***************************************************************************)
(* C4: the position on a LOST line lies on the grid, 0 <= x <= x_max and   *)
(* 0 <= y <= y_max, for every grid and every parsed start pose.            *)
(***************************************************************************)
C4_LostLineOnGrid ==
    \A i \in 1..Len(output) :
        IsLostLine(output[i]) =>
            \E x \in 0..grid.x_max, y \in 0..grid.y_max, b \in Bearings :
                output[i] = Ok(FormatLost([x |-> x, y |-> y, bearing |-> b]))

(***************************************************************************)
(* C5: once a robot is lost, the instructions that remain change nothing:  *)
(* it stays one step beyond the pose it had at the Forward that took it    *)
(* off the grid, and its LOST line is that pose.                           *)
(***************************************************************************)
C5_LostSkipsTheRest ==
    fallen # None =>
        /\ robot = move_unchecked(fallen, 1)
        /\ Reported => LastItem = Ok(FormatLost(fallen))

\* a robot lost by its first instruction, reported after a turn that followed
C5_Witness ==
    /\ Reported
    /\ fallen = start
    /\ Len(instructions) = 2
    /\ instructions[1] = F
    /\ instructions[2] = Turn("L")
    /\ LastItem = Ok(FormatLost(start))

(***************************************************************************)
(* C6: a robot whose script holds no Forward is reported with the x and y  *)
(* of its position line, for all grids and robots.                         *)
(***************************************************************************)
C6_TurnsKeepPosition ==
    (Reported /\ ~HasForward(instructions)) =>
        \E b \in Bearings :
            LET end == [x |-> start.x, y |-> start.y, bearing |-> b]
            IN  LastItem \in {Ok(FormatPose(end)), Ok(FormatLost(end))}

(***************************************************************************)
(* C7: a Forward of a robot on the grid towards a cell on the grid moves   *)
(* the robot to that cell and does not lose it, whatever the scents.       *)
(***************************************************************************)
C7_ForwardOnGridMoves ==
    [][(Executes(F) /\ ~is_out_of_bounds(grid, move_unchecked(robot, 1)))
       => (/\ robot' = move_unchecked(robot, 1)
           /\ ~is_out_of_bounds(grid', robot')
           /\ fallen' = None
           /\ pc' = "running")]_vars

\* a robot that has just stepped off a scented cell onto a cell of the grid
C7_Witness ==
    /\ pc = "running"
    /\ ip = 2
    /\ instructions[1] = F
    /\ InGrid(start)
    /\ has_scent(grid, start)
    /\ robot = move_unchecked(start, 1)
    /\ InGrid(robot)

(***************************************************************************)
(* C8: the scent set changes only by the insertion of the cell of a LOST   *)
(* line, in the step that yields that line; a robot that ends on the grid  *)
(* and a pair that fails to parse leave it as it was; no cell is removed.  *)
(***************************************************************************)
C8_OnlyLostMarks ==
    [][/\ Scents \subseteq Scents'
       /\ IF output' # output /\ IsLostLine(output'[Len(output')])
          THEN \E c \in Scents', b \in Bearings :
                   /\ output' = Append(output, Ok(FormatLost([x |-> c[1], y |-> c[2], bearing |-> b])))
                   /\ Scents' = Scents \cup {c}
          ELSE Scents' = Scents]_vars

\* a lost robot left one scent, and the robot after it ended on the grid
C8_Witness ==
    /\ Reported
    /\ Len(output) = 2
    /\ IsLostLine(output[1])
    /\ IsOk(output[2])
    /\ ~IsLostLine(output[2])
    /\ Cardinality(Scents) = 1

(***************************************************************************)
(* Vocabulary of the properties of whole inputs.                           *)
(***************************************************************************)
IsNonBlank(it) == it # Ok(<<>>)
NonBlank == SelectSeq(lines.rest, IsNonBlank)
\* the grid line, then position lines and scripts in turn, all of them parsing
WellFormed(p) ==
    /\ Len(p) >= 1
    /\ \A i \in 1..Len(p) : IsOk(p[i])
    /\ IsOk(GridTryFrom(p[1].line))
    /\ \A i \in 2..Len(p) :
        IF i % 2 = 0 THEN IsOk(RobotTryFrom(p[i].line)) ELSE IsOk(ParseInstructions(p[i].line))

(***************************************************************************)
(* C9: the k-th item is a function of the grid line and the first k pairs: *)
(* it is what the closure yields on the first 1 + 2k non-blank lines,      *)
(* whatever lines follow them.                                             *)
(***************************************************************************)
C9_PrefixDecides ==
    IsOk(flat) =>
        \A k \in 1..Len(output) :
            /\ Len(NonBlank) >= 2 * k + 1
            /\ output[k] = nth_item(SubSeq(NonBlank, 1, 2 * k + 1), k)

\* two robots were reported, the second on the scent of the first
C9_Witness ==
    /\ pc = "done"
    /\ Len(NonBlank) = 5
    /\ Len(output) = 2
    /\ IsLostLine(output[1])
    /\ IsOk(output[2])
    /\ ~IsLostLine(output[2])
    /\ output[2] # nth_item(<<NonBlank[1], NonBlank[4], NonBlank[5]>>, 1)

(***************************************************************************)
(* C10: a well-formed input of n non-blank lines is read to its end        *)
(* without an error and yields floor((n - 1) / 2) items, the i-th being    *)
(* the result of the i-th pair; an unpaired last line stays in tuples()    *)
(* and no robot is run for it.                                             *)
(***************************************************************************)
C10_OneItemPerPair ==
    WellFormed(NonBlank) =>
        /\ pc # "failed"
        /\ pc = "done" =>
            LET n == Len(NonBlank)
            IN  /\ cursor = Len(lines.rest)
                /\ Len(output) = (n - 1) \div 2
                /\ \A i \in 1..Len(output) : IsOk(output[i]) /\ output[i] = nth_item(NonBlank, i)
                /\ (n - 1) % 2 = 1 =>
                    /\ pending = NonBlank[n]
                    /\ start = None
                    /\ robot = None
                    /\ instructions = <<>>

\* the run of a well-formed input of one pair and an unpaired line is over
C10_Witness ==
    /\ pc = "done"
    /\ WellFormed(NonBlank)
    /\ Len(NonBlank) = 4
    /\ Len(output) = 1
    /\ pending = NonBlank[4]

(***************************************************************************)
(* C11 as the spec has it: a position line followed by an empty line is a  *)
(* robot with a script of length 0; its item is the start pose, and the    *)
(* two lines after the empty one are the next pair.                        *)
(***************************************************************************)
EmptyScriptThird ==
    /\ Len(lines.rest) >= 3
    /\ IsOk(GridTryFrom(lines.rest[1].line))
    /\ IsOk(RobotTryFrom(lines.rest[2].line))
    /\ lines.rest[3] = Ok(<<>>)

C11_EmptyScriptRuns ==
    (EmptyScriptThird /\ pc \in {"done", "failed"}) =>
        LET g == GridTryFrom(lines.rest[1].line).val
        IN  /\ Len(output) >= 1
            /\ output[1] = Ok(FormatPose(RobotTryFrom(lines.rest[2].line).val))
            /\ (Len(lines.rest) >= 5 /\ IsNonBlank(lines.rest[4]) /\ IsNonBlank(lines.rest[5])) =>
                /\ Len(output) >= 2
                /\ output[2] = closure(g, lines.rest[4], lines.rest[5]).item

(***************************************************************************)
(* C11: an empty line after a position line is dropped like any blank      *)
(* line; the position line is paired with the next non-blank line, and     *)
(* yields no item when there is none.  No robot runs a script of length 0. *)
(***************************************************************************)
C11_EmptyScriptDropped ==
    EmptyScriptThird =>
        LET g == GridTryFrom(lines.rest[1].line).val
        IN  /\ Len(output) >= 1 =>
                /\ Len(NonBlank) >= 3
                /\ output[1] = closure(g, lines.rest[2], NonBlank[3]).item
            /\ (pc = "done" /\ Len(NonBlank) = 2) => (output = <<>> /\ pending = lines.rest[2])
            /\ pc = "running" => instructions # <<>>

\* the position line of the second robot was taken as the script of the first
C11_Witness ==
    /\ EmptyScriptThird
    /\ Len(lines.rest) >= 4
    /\ IsOk(RobotTryFrom(lines.rest[4].line))
    /\ pc = "failed"
    /\ output = <<Err("instruction must be F, L, or R")>>

(***************************************************************************)
(* C12: when the input has no non-blank line, or its first non-blank line  *)
(* is not exactly two integer fields, no grid is built, no line after it   *)
(* is read and no robot is parsed or run; the only item is the error of    *)
(* the grid construction, which is `input must not be empty` for an input  *)
(* without a non-blank line.                                               *)
(***************************************************************************)
TwoIntegerFields(l) ==
    LET split == Split(l)
    IN  Len(split) = 2 /\ IsOk(ParseI32(split[1])) /\ IsOk(ParseI32(split[2]))

GridFails == NonBlank = <<>> \/ ~TwoIntegerFields(NonBlank[1].line)

GridError ==
    IF NonBlank = <<>> THEN Err("input must not be empty") ELSE GridTryFrom(NonBlank[1].line)

C12_GridFailureFirst ==
    GridFails =>
        /\ pc \in {"start", "tuple0", "failed"}
        /\ grid = None /\ pending = None
        /\ start = None /\ robot = None /\ instructions = <<>>
        /\ Len(SelectSeq(SubSeq(lines.rest, 1, cursor), IsNonBlank)) <= 1
        /\ pc = "start" => output = <<>>
        /\ pc = "tuple0" => (output = <<>> /\ IsErr(flat) /\ flat = GridError)
        /\ pc = "failed" => (output = <<GridError>> /\ IsErr(output[1]))

\* a first line of three fields, and lines after it that were never read
C12_Witness ==
    /\ Len(NonBlank) >= 3
    /\ Len(Split(NonBlank[1].line)) = 3
    /\ pc = "failed"
    /\ output = <<Err("grid line has too many fields")>>
    /\ cursor < Len(lines.rest)

(***************************************************************************)
(* C13: when the script of the k-th pair has a character outside F, L, R,  *)
(* at any index, the robot of that pair never runs: the item of the pair   *)
(* is an error, the run ends on it, no robot or script is held, and the    *)
(* grid with its scents is the one the pairs before it left.               *)
(***************************************************************************)
HasBadChar(l) == \E i \in 1..Len(l) : l[i] \notin {"F", "L", "R"}

C13_BadScriptRunsNothing ==
    IsOk(flat) =>
        \A k \in 1..((Len(NonBlank) - 1) \div 2) :
            HasBadChar(NonBlank[2 * k + 1].line) =>
                /\ Len(output) <= k
                /\ pc = "running" => Len(output) + 1 < k
                /\ Len(output) = k =>
                    /\ pc = "failed"
                    /\ IsErr(output[k])
                    /\ IsOk(RobotTryFrom(NonBlank[2 * k].line)) =>
                        output[k] = Err("instruction must be F, L, or R")
                    /\ start = None /\ robot = None /\ instructions = <<>> /\ fallen = None
                    /\ grid = grid_after(NonBlank, k - 1)

\* the second script is F then X; the first robot was lost and left its scent
C13_Witness ==
    /\ pc = "failed"
    /\ Len(NonBlank) = 5
    /\ NonBlank[5] = Ok(<<"F", "X">>)
    /\ Len(output) = 2
    /\ IsLostLine(output[1])
    /\ output[2] = Err("instruction must be F, L, or R")
    /\ Cardinality(Scents) = 1

(***************************************************************************)
(* C14: main receives the items in input order and stops at the first      *)
(* error item.  No step leaves the state in which main has returned the    *)
(* error; the items received are only ever added to at the end; every      *)
(* item before the last is a result line; an error item ends the run; and  *)
(* when a pair fails, the items are the results of the pairs before it,    *)
(* in order, followed by the error of that pair.                           *)
(***************************************************************************)
C14_StopsAtFirstError ==
    [][/\ pc # "failed"
       /\ Len(output') >= Len(output)
       /\ SubSeq(output', 1, Len(output)) = output
       /\ \A i \in 1..Len(output) : IsOk(output[i])
       /\ (Len(output') > Len(output) /\ IsErr(output'[Len(output')])) => pc' = "failed"
       /\ pc' = "failed" =>
            LET n == Len(output')
            IN  /\ n >= 1
                /\ IsErr(output'[n])
                /\ IsOk(flat') =>
                    /\ Len(NonBlank) >= 2 * n + 1
                    /\ \A i \in 1..n : output'[i] = nth_item(NonBlank, i)]_vars

\* the first pair failed on its script; the well-formed pair after it was never read
C14_Witness ==
    /\ pc = "failed"
    /\ Len(NonBlank) = 5
    /\ WellFormed(<<NonBlank[1], NonBlank[4], NonBlank[5]>>)
    /\ output = <<Err("instruction must be F, L, or R")>>
    /\ cursor < Len(lines.rest)

(***************************************************************************)
(* C15: a caller that calls next until it returns None receives no more    *)
(* items than the input has lines, one more at most for the error of the   *)
(* grid construction.                                                      *)
(***************************************************************************)
C15_ItemsBounded == consumer = "drain" => Len(output) <= Len(lines.rest) + 1

(***************************************************************************)
(* C16: while a robot on the grid runs a script of turns to one side, its  *)
(* bearing is the one it started with exactly when the number of turns     *)
(* made is a multiple of four: after 4 turns it is back, after 1, 2, 3 or  *)
(* 5 it is not.  Its position never changes.                               *)
(***************************************************************************)
C16_FourTurnsRestore ==
    pc = "running" =>
        /\ Cell(robot) = Cell(start)
        /\ robot.bearing = start.bearing <=> (ip - 1) % 4 = 0

\* four turns made, the bearing is the first one again
C16_Witness ==
    /\ pc = "running"
    /\ ip = 5
    /\ Len(instructions) >= 4
    /\ robot.bearing = start.bearing

(***************************************************************************)
(* C17: the adaptor of flatten.rs returns, call after call, the items of   *)
(* the iterator of an Ok in their order and then None; for an Err(e) its   *)
(* first call returns Err(e) and every later call returns None.            *)
(***************************************************************************)
C17_AdaptorFaithful ==
    (adaptor # None /\ adaptor.self # None) =>
        \A i \in 1..Len(returned) :
            IF IsOk(adaptor.given)
            THEN LET items == adaptor.given.val.items
                 IN  returned[i] = IF i <= Len(items) THEN Some(items[i]) ELSE None
            ELSE returned[i] = IF i = 1 THEN Some(adaptor.given) ELSE None

\* three calls on the adaptor of an Err: the error, then None twice
C17_Witness ==
    /\ adaptor # None
    /\ IsErr(adaptor.given)
    /\ Len(returned) = 3
    /\ returned = <<Some(adaptor.given), None, None>>

(***************************************************************************)
(* The state machine of the spec: a robot is Active(pose) or Lost(pose).   *)
(* A turn rotates the bearing.  A forward step moves to the next cell when *)
(* the grid contains it, stays when the cell of the robot has a scent, and *)
(* is Lost(pose) otherwise.  The run is the left fold over the script,     *)
(* stopping at the first Lost.                                             *)
(***************************************************************************)
Active(pose) == [tag |-> "Active", pose |-> pose]
Lost(pose) == [tag |-> "Lost", pose |-> pose]

Clockwise == <<"N", "E", "S", "W">>
Turned(b, r) ==
    LET i == CHOOSE j \in 1..4 : Clockwise[j] = b
    IN  Clockwise[IF r = "R" THEN (i % 4) + 1 ELSE ((i + 2) % 4) + 1]
Ahead(pose) ==
    [pose EXCEPT !.x = @ + (IF pose.bearing = "E" THEN 1 ELSE IF pose.bearing = "W" THEN -1 ELSE 0),
                 !.y = @ + (IF pose.bearing = "N" THEN 1 ELSE IF pose.bearing = "S" THEN -1 ELSE 0)]
Contains(g, pose) == pose.x \in 0..g.x_max /\ pose.y \in 0..g.y_max

Transition(g, st, instruction) ==
    IF st.tag = "Lost" THEN st
    ELSE IF instruction.kind = "Turn"
    THEN Active([st.pose EXCEPT !.bearing = Turned(@, instruction.rotation)])
    ELSE IF Contains(g, Ahead(st.pose)) THEN Active(Ahead(st.pose))
    ELSE IF <<st.pose.x, st.pose.y>> \in g.scents THEN st
    ELSE Lost(st.pose)

RECURSIVE Run(_, _, _)
Run(g, pose, instrs) ==
    IF instrs = <<>> THEN Active(pose)
    ELSE Transition(g, Run(g, pose, SubSeq(instrs, 1, Len(instrs) - 1)), instrs[Len(instrs)])

RunLine(st) == IF st.tag = "Lost" THEN FormatLost(st.pose) ELSE FormatPose(st.pose)
RunScents(g, st) ==
    IF st.tag = "Lost" THEN g.scents \cup {<<st.pose.x, st.pose.y>>} ELSE g.scents

(***************************************************************************)
(* C18: for a robot that starts on the grid, the code agrees with the      *)
(* state machine of the spec.  After each instruction the robot is on the  *)
(* grid at the Active pose, or off the grid one step ahead of the Lost     *)
(* pose; and the closure yields the line of the machine's final state and  *)
(* leaves the scents the machine leaves.                                   *)
(***************************************************************************)
C18_RefinesRun ==
    [][(pc = "running" /\ Contains(grid, start)) =>
        /\ Run(grid, start, SubSeq(instructions, 1, ip - 1)) =
                (IF Contains(grid, robot) THEN Active(robot) ELSE Lost(fallen))
        /\ Contains(grid, robot) \/ robot = Ahead(fallen)
        /\ pc' # "running" =>
            LET st == Run(grid, start, instructions)
            IN  /\ output' = Append(output, Ok(RunLine(st)))
                /\ grid'.scents = RunScents(grid, st)
                /\ grid'.x_max = grid.x_max /\ grid'.y_max = grid.y_max]_vars

\* the second robot started on the grid, was lost on its first instruction at
\* another cell than the first, and skipped its second
C18_Witness ==
    /\ Reported
    /\ Contains(grid, start)
    /\ Len(output) = 2
    /\ IsLostLine(output[2])
    /\ Len(instructions) = 2
    /\ fallen = start
    /\ Cardinality(Scents) = 2

(***************************************************************************)
(* C19: every cell of the scent set lies on the grid.                      *)
(***************************************************************************)
C19_ScentsOnGrid ==
    \A c \in Scents : c[1] \in 0..grid.x_max /\ c[2] \in 0..grid.y_max

(***************************************************************************)
(* C20: between two robots, the scent set has as many cells as there are   *)
(* LOST lines among the items so far.                                      *)
(***************************************************************************)
LostLines == {i \in 1..Len(output) : IsLostLine(output[i])}

C20_OneScentPerLost ==
    pc \in {"tuple0", "tuple1", "done", "failed"} => Cardinality(Scents) = Cardinality(LostLines)

====
